---- MODULE Spec2Model ----
(***************************************************************************)
(* Model of the interactive distribution selector of LinuxForMac           *)
(* (selectDistro and its caller main).  One action per straight-line       *)
(* stretch of code between two blocking points: the call of selectDistro,  *)
(* the blocking read of standard input, and the function return with its   *)
(* deferred calls.                                                         *)
(***************************************************************************)
EXTENDS Integers, Sequences, FiniteSets, TLC

\* ------------------------------------------------------------------ bounds
\* Number of reads of standard input a session may perform in the model.
MaxReads == 5

\* --------------------------------------------------------- program constants
distroList == <<"ubuntu", "debian", "arch", "fedora", "alpine">>

ESC == 27
CR == 13
LBRACKET == 91
QuitKeys == {113, 81}
VimUpKeys == {107, 75}
VimDownKeys == {106, 74}
ArrowUpByte == 65
ArrowDownByte == 66

linesShort == Len(distroList) + 3
\* lines := len(distroList) + 4  // header + blank + items + blank + help
lines == Len(distroList) + 4

ErrNil == "nil"
ErrCancelled == "cancelled"
ErrRawMode == "enable raw mode"
ErrRead == "read input"

\* ------------------------------------------------------------ input samples
\* What one call of os.Stdin.Read(buf) can deliver: 1 to 3 bytes, or an error.
OneByte == QuitKeys \cup VimUpKeys \cup VimDownKeys \cup {CR, ESC, 120, ArrowDownByte}
TwoBytes == {<<ESC, LBRACKET>>, <<LBRACKET, ArrowDownByte>>, <<113, 113>>, <<CR, 106>>}
ThreeBytes == {<<ESC, LBRACKET, ArrowUpByte>>, <<ESC, LBRACKET, ArrowDownByte>>,
               <<ESC, LBRACKET, 67>>, <<ESC, 79, ArrowDownByte>>,
               <<120, LBRACKET, ArrowUpByte>>, <<113, 113, 113>>}
ReadError == [n |-> 0, b |-> <<>>, err |-> TRUE]
ReadResults ==
    {[n |-> 1, b |-> <<c>>, err |-> FALSE] : c \in OneByte}
    \cup {[n |-> Len(s), b |-> s, err |-> FALSE] : s \in TwoBytes \cup ThreeBytes}
    \cup {ReadError}
Args == {"ubuntu", "gentoo"}

VARIABLES
    pc,         \* control position of the process
    raw,        \* TRUE while the terminal is in raw mode
    deferred,   \* selectDistro's stack of deferred calls
    restores,   \* number of term.Restore calls made
    selected,   \* the selection cursor
    buf,        \* the reused 3-byte read buffer
    n,          \* byte count of the latest read (n, err := os.Stdin.Read(buf))
    pending,    \* what the blocking read will deliver (<<>>: nothing yet)
    ret,        \* selectDistro's return values (string, error)
    row,        \* terminal cursor row, relative to the menu's top row
    screen,     \* lines displayed from the menu's top row downward
    clearedAt,  \* rows from which clear-to-end-of-screen was issued
    reads,      \* number of completed calls of os.Stdin.Read
    renders,    \* number of calls of render()
    downs,      \* number of reads handled as a down move
    ups,        \* number of reads handled as an up move
    linuxDistro, \* main's linuxDistro
    testMode,   \* main's testMode
    stdout,     \* lines main printed with fmt.Println
    logged      \* messages written by log.Fatalf

vars == <<pc, raw, deferred, restores, selected, buf, n, pending, ret, row, screen,
          clearedAt, reads, renders, downs, ups, linuxDistro, testMode, stdout, logged>>

termVars == <<row, screen, clearedAt>>
mainVars == <<linuxDistro, testMode, stdout, logged>>
histVars == <<reads, renders, downs, ups>>

\* ------------------------------------------------------------------ helpers
Line(text, hl) == [text |-> text, hl |-> hl]

\* The lines render() prints, each terminated by \r\n.
RenderLines(sel) ==
    <<Line("Select a Linux distribution:", FALSE), Line("", FALSE)>>
    \o [i \in 1..Len(distroList) |-> Line(distroList[i], i - 1 = sel)]
    \o <<Line("", FALSE), Line("Use arrow keys to navigate, Enter to select, q to quit.", FALSE)>>

\* "\r\033[J": clear from the cursor's row to the end of the screen.
ClearDown(scr, r) == IF r <= 0 THEN <<>> ELSE SubSeq(scr, 1, IF r < Len(scr) THEN r ELSE Len(scr))

\* os.Stdin.Read(buf): the first n bytes are overwritten, the rest is kept.
BufAfterRead(b, r) == [i \in 1..3 |-> IF i <= r.n THEN r.b[i] ELSE b[i]]

ClassifyStale(k, b) ==
    IF k = 1 THEN
        CASE b[1] \in QuitKeys -> "quit"
          [] b[1] = CR -> "enter"
          [] b[1] \in VimUpKeys -> "vimUp"
          [] b[1] \in VimDownKeys -> "vimDown"
          [] OTHER -> "none"
    ELSE IF b[1] = ESC /\ b[2] = LBRACKET THEN
        CASE b[3] = ArrowUpByte -> "arrowUp"
          [] b[3] = ArrowDownByte -> "arrowDown"
          [] OTHER -> "none"
    ELSE "none"

ClassifyLowerQ(k, b) ==
    IF k = 1 THEN
        CASE b[1] = 113 -> "quit"
          [] b[1] = CR -> "enter"
          [] b[1] \in VimUpKeys -> "vimUp"
          [] b[1] \in VimDownKeys -> "vimDown"
          [] OTHER -> "none"
    ELSE IF k = 3 /\ b[1] = ESC /\ b[2] = LBRACKET THEN
        CASE b[3] = ArrowUpByte -> "arrowUp"
          [] b[3] = ArrowDownByte -> "arrowDown"
          [] OTHER -> "none"
    ELSE "none"

ClassifyEscQuits(k, b) ==
    IF k = 1 THEN
        CASE b[1] \in QuitKeys \cup {ESC} -> "quit"
          [] b[1] = CR -> "enter"
          [] b[1] \in VimUpKeys -> "vimUp"
          [] b[1] \in VimDownKeys -> "vimDown"
          [] OTHER -> "none"
    ELSE IF k = 3 /\ b[1] = ESC /\ b[2] = LBRACKET THEN
        CASE b[3] = ArrowUpByte -> "arrowUp"
          [] b[3] = ArrowDownByte -> "arrowDown"
          [] OTHER -> "none"
    ELSE "none"

\* The two switch statements on the bytes read.
Classify(k, b) ==
    IF k = 1 THEN
        CASE b[1] \in QuitKeys -> "quit"
          [] b[1] = CR -> "enter"
          [] b[1] \in VimUpKeys -> "vimUp"
          [] b[1] \in VimDownKeys -> "vimDown"
          [] OTHER -> "none"
    ELSE IF k = 3 /\ b[1] = ESC /\ b[2] = LBRACKET THEN
        CASE b[3] = ArrowUpByte -> "arrowUp"
          [] b[3] = ArrowDownByte -> "arrowDown"
          [] OTHER -> "none"
    ELSE "none"

VimUpWrap(sel) == IF sel > 0 THEN sel - 1 ELSE Len(distroList) - 1
VimUp(sel) == IF sel > 0 THEN sel - 1 ELSE sel

VimDownNoClamp(sel) == sel + 1
VimDown(sel) == IF sel < Len(distroList) - 1 THEN sel + 1 ELSE sel

ArrowUp(sel) == IF sel > 0 THEN sel - 1 ELSE sel
ArrowDown(sel) == IF sel < Len(distroList) - 1 THEN sel + 1 ELSE sel

Moved(kind, sel) ==
    CASE kind = "vimUp" -> VimUp(sel)
      [] kind = "vimDown" -> VimDown(sel)
      [] kind = "arrowUp" -> ArrowUp(sel)
      [] kind = "arrowDown" -> ArrowDown(sel)
      [] OTHER -> sel

ChoiceFirst(sel) == distroList[1]
\* return distroList[selected], nil
Choice(sel) == distroList[sel + 1]

NoDefer == <<>>
\* defer term.Restore(fd, oldState)
DeferStack == <<"term.Restore">>

ReadErrorRetries == "loop"
\* if err != nil { return "", fmt.Errorf("read input: %w", err) }
OnReadError == "returning"

\* ---------------------------------------------------------------------- Init
Init ==
    /\ pc = "main"
    /\ raw = FALSE
    /\ deferred = <<>>
    /\ restores = 0
    /\ selected = 0
    /\ buf = <<0, 0, 0>>
    /\ n = 0
    /\ pending = <<>>
    /\ ret = [choice |-> "", err |-> ErrNil]
    /\ row = 0
    /\ screen = <<>>
    /\ clearedAt = {}
    /\ reads = 0
    /\ renders = 0
    /\ downs = 0
    /\ ups = 0
    /\ linuxDistro = ""
    /\ testMode = FALSE
    /\ stdout = <<>>
    /\ logged = <<>>

\* ------------------------------------------------------------------- actions
\* main with len(os.Args) >= 2: no menu, the distro comes from the arguments.
MainArgs ==
    /\ pc = "main"
    /\ \E a \in Args, t \in BOOLEAN :
        /\ linuxDistro' = a
        /\ testMode' = t
        /\ stdout' = Append(stdout, <<"Linux Distro:", a>>)
    /\ pc' = "initializeVM"
    /\ UNCHANGED <<raw, deferred, restores, selected, buf, n, pending, ret, termVars, histVars, logged>>

\* main with len(os.Args) < 2: calls selectDistro.
MainNoArgs ==
    /\ pc = "main"
    /\ testMode' = TRUE
    /\ pc' = "selectDistro"
    /\ UNCHANGED <<raw, deferred, restores, selected, buf, n, pending, ret, termVars, histVars,
                   linuxDistro, stdout, logged>>

\* term.MakeRaw fails: return before the defer is registered.
MakeRawFails ==
    /\ pc = "selectDistro"
    /\ ret' = [choice |-> "", err |-> ErrRawMode]
    /\ pc' = "returning"
    /\ UNCHANGED <<raw, deferred, restores, selected, buf, n, pending, termVars, histVars, mainVars>>

\* term.MakeRaw succeeds; defer, locals, initial render.
MakeRawOk ==
    /\ pc = "selectDistro"
    /\ raw' = TRUE
    /\ deferred' = DeferStack
    /\ selected' = 0
    /\ buf' = <<0, 0, 0>>
    /\ clearedAt' = clearedAt \cup {row}
    /\ screen' = ClearDown(screen, row) \o RenderLines(0)
    /\ row' = row + Len(RenderLines(0))
    /\ renders' = renders + 1
    /\ pc' = "loop"
    /\ UNCHANGED <<restores, n, pending, ret, reads, downs, ups, mainVars>>

\* Top of the loop: move the cursor up, then block in os.Stdin.Read.
CursorUp ==
    /\ pc = "loop"
    /\ row' = row - lines
    /\ pc' = "read"
    /\ UNCHANGED <<raw, deferred, restores, selected, buf, n, pending, ret, screen, clearedAt,
                   histVars, mainVars>>

\* The terminal delivers input (or an error) to the blocked read.
KeyInput ==
    /\ pc \in {"loop", "read"}
    /\ pending = <<>>
    /\ reads < MaxReads
    /\ \E r \in ReadResults : pending' = <<r>>
    /\ UNCHANGED <<pc, raw, deferred, restores, selected, buf, n, ret, termVars, histVars, mainVars>>

\* os.Stdin.Read returns an error.
ReadFails ==
    /\ pc = "read"
    /\ pending # <<>>
    /\ pending[1].err
    /\ n' = pending[1].n
    /\ pending' = <<>>
    /\ reads' = reads + 1
    /\ pc' = OnReadError
    /\ ret' = [choice |-> "", err |-> ErrRead]
    /\ UNCHANGED <<raw, deferred, restores, selected, buf, termVars, renders, downs, ups, mainVars>>

\* case 'q', 'Q'
ReadQuit ==
    /\ pc = "read"
    /\ pending # <<>>
    /\ ~pending[1].err
    /\ LET r == pending[1]
           nb == BufAfterRead(buf, r)
       IN /\ Classify(r.n, nb) = "quit"
          /\ buf' = nb
          /\ n' = r.n
    /\ pending' = <<>>
    /\ reads' = reads + 1
    /\ clearedAt' = clearedAt \cup {row}
    /\ screen' = ClearDown(screen, row)
    /\ ret' = [choice |-> "", err |-> ErrCancelled]
    /\ pc' = "returning"
    /\ UNCHANGED <<raw, deferred, restores, selected, row, renders, downs, ups, mainVars>>

\* case 13
ReadEnter ==
    /\ pc = "read"
    /\ pending # <<>>
    /\ ~pending[1].err
    /\ LET r == pending[1]
           nb == BufAfterRead(buf, r)
       IN /\ Classify(r.n, nb) = "enter"
          /\ buf' = nb
          /\ n' = r.n
    /\ pending' = <<>>
    /\ reads' = reads + 1
    /\ clearedAt' = clearedAt \cup {row}
    /\ screen' = ClearDown(screen, row)
    /\ ret' = [choice |-> Choice(selected), err |-> ErrNil]
    /\ pc' = "returning"
    /\ UNCHANGED <<raw, deferred, restores, selected, row, renders, downs, ups, mainVars>>

\* Every other read: maybe move the cursor, then render() and loop.
ReadOther ==
    /\ pc = "read"
    /\ pending # <<>>
    /\ ~pending[1].err
    /\ LET r == pending[1]
           nb == BufAfterRead(buf, r)
           kind == Classify(r.n, nb)
           sel == Moved(kind, selected)
       IN /\ kind \notin {"quit", "enter"}
          /\ buf' = nb
          /\ n' = r.n
          /\ selected' = sel
          /\ downs' = IF kind \in {"vimDown", "arrowDown"} THEN downs + 1 ELSE downs
          /\ ups' = IF kind \in {"vimUp", "arrowUp"} THEN ups + 1 ELSE ups
          /\ clearedAt' = clearedAt \cup {row}
          /\ screen' = ClearDown(screen, row) \o RenderLines(sel)
          /\ row' = row + Len(RenderLines(sel))
    /\ pending' = <<>>
    /\ reads' = reads + 1
    /\ renders' = renders + 1
    /\ pc' = "loop"
    /\ UNCHANGED <<raw, deferred, restores, ret, mainVars>>

ReadStep == ReadFails \/ ReadQuit \/ ReadEnter \/ ReadOther

\* selectDistro returns: the deferred calls run, then control is the caller's.
Return ==
    /\ pc = "returning"
    /\ restores' = restores + Len(deferred)
    /\ raw' = IF deferred # <<>> THEN FALSE ELSE raw
    /\ deferred' = <<>>
    /\ pc' = "returned"
    /\ UNCHANGED <<selected, buf, n, pending, ret, termVars, histVars, mainVars>>

\* main: if err != nil { log.Fatalf("Distro selection: %v", err) }
MainFatal ==
    /\ pc = "returned"
    /\ ret.err # ErrNil
    /\ logged' = Append(logged, <<"Distro selection:", ret.err>>)
    /\ pc' = "exit1"
    /\ UNCHANGED <<raw, deferred, restores, selected, buf, n, pending, ret, termVars, histVars,
                   linuxDistro, testMode, stdout>>

\* main: linuxDistro = choice; fmt.Println; initializeVM(linuxDistro, testMode)
MainLaunch ==
    /\ pc = "returned"
    /\ ret.err = ErrNil
    /\ linuxDistro' = ret.choice
    /\ stdout' = Append(stdout, <<"Linux Distro:", ret.choice>>)
    /\ pc' = "initializeVM"
    /\ UNCHANGED <<raw, deferred, restores, selected, buf, n, pending, ret, termVars, histVars,
                   testMode, logged>>

Next ==
    \/ MainArgs
    \/ MainNoArgs
    \/ MakeRawFails
    \/ MakeRawOk
    \/ CursorUp
    \/ KeyInput
    \/ ReadStep
    \/ Return
    \/ MainFatal
    \/ MainLaunch

Spec == Init /\ [][Next]_vars

\* The loop is the only thing the process does: it is scheduled fairly.  The
\* terminal (KeyInput) is under no obligation to deliver anything.
FairSpec == Spec /\ WF_vars(CursorUp) /\ WF_vars(ReadStep) /\ WF_vars(Return)

TypeOK ==
    /\ pc \in {"main", "selectDistro", "loop", "read", "returning", "returned", "exit1", "initializeVM"}
    /\ raw \in BOOLEAN
    /\ restores \in 0..1
    /\ reads \in 0..MaxReads
    /\ renders \in 0..(MaxReads + 1)
    /\ Len(pending) <= 1

\* ------------------------------------------------------------ vocabulary
LastIndex == Len(distroList) - 1
InSession == pc \in {"loop", "read"}
AfterReturn == pc \in {"returned", "exit1", "initializeVM"}
\* A step that completes a call of os.Stdin.Read.
ReadCompletes == pc = "read" /\ pc' # "read"
SingleByte(r, keys) == ~r.err /\ r.n = 1 /\ r.b[1] \in keys
IsArrow(r, c) == ~r.err /\ r.n = 3 /\ r.b = <<27, 91, c>>
IsDown(r) == SingleByte(r, {106, 74}) \/ IsArrow(r, 66)
IsUp(r) == SingleByte(r, {107, 75}) \/ IsArrow(r, 65)
Terminating(r) == r.err \/ SingleByte(r, {113, 81, 13})
Unrecognized(r) ==
    /\ ~r.err
    /\ \/ r.n = 1 /\ r.b[1] \notin {113, 81, 13, 106, 74, 107, 75}
       \/ r.n = 2
       \/ r.n = 3 /\ ~(r.b[1] = 27 /\ r.b[2] = 91 /\ r.b[3] \in {65, 66})
Min(a, b) == IF a < b THEN a ELSE b
Max(a, b) == IF a > b THEN a ELSE b

\* C1: in every reachable state the selection cursor is an index of the choice
\* list, 0 <= cursor < len(choices), whatever was read, and it is 0 until the
\* first navigation read.
C1_CursorInRange ==
    /\ selected \in 0..LastIndex
    /\ (downs = 0 /\ ups = 0) => selected = 0

\* C1 witness: the cursor sits on the last choice after more down moves than
\* there are choices to move over.
C1_Witness == pc = "loop" /\ selected = LastIndex /\ downs > LastIndex /\ ups = 0

\* C2: a single-byte Enter read ends the session with Selected(choices[cursor])
\* for the cursor held at that moment; Enter after N <= len(choices)-1 down moves
\* from index 0 selects choices[N] (down, down, Enter selects arch), and Enter
\* after up moves only selects ubuntu.
C2_EnterSelectsCursor ==
    /\ [][(ReadCompletes /\ SingleByte(pending[1], {13}))
            => /\ pc' = "returning"
               /\ ret' = [choice |-> distroList[selected + 1], err |-> "nil"]]_vars
    /\ [](((pc \in {"returning", "returned"} \/ (pc = "initializeVM" /\ reads > 0)) /\ ret.err = "nil")
            => /\ (ups = 0 /\ downs <= LastIndex) => ret.choice = distroList[downs + 1]
               /\ (ups = 0 /\ downs = 2) => ret.choice = "arch"
               /\ (downs = 0) => ret.choice = "ubuntu")

\* C2 witness: down, down, Enter has returned arch.
C2_Witness == pc = "returned" /\ reads = 3 /\ downs = 2 /\ ups = 0 /\ ret = [choice |-> "arch", err |-> "nil"]

\* C3: once raw mode was entered the terminal mode is restored exactly once, by
\* the return of selectDistro, after the session's last read and render and
\* before the caller runs; after the return the terminal is never raw; when
\* raw-mode setup fails nothing is restored.
C3_RestoredOnceOnExit ==
    /\ [](InSession => (raw /\ restores = 0))
    /\ [](pc = "returning" => (restores = 0 /\ raw = (ret.err # "enable raw mode")))
    /\ [](AfterReturn => /\ ~raw
                         /\ restores = (IF renders > 0 THEN 1 ELSE 0)
                         /\ (ret.err = "enable raw mode" => restores = 0))
    /\ [][restores' # restores
            => /\ pc = "returning" /\ pc' = "returned"
               /\ restores' = restores + 1
               /\ UNCHANGED <<reads, renders, row, screen, clearedAt, logged, stdout>>]_vars
    /\ [][AfterReturn => UNCHANGED <<raw, restores, reads, renders, row, screen, clearedAt>>]_vars

\* C3 witness: the session ended on a failed read and the mode was restored.
C3_Witness == pc = "returned" /\ ret.err = "read input" /\ reads > 1 /\ restores = 1 /\ ~raw

\* C4: a single-byte q or Q read ends the session with Cancelled at any cursor
\* position; the outcome carries no label and the menu region is cleared before
\* the session returns.
C4_QuitCancels ==
    /\ [][(ReadCompletes /\ SingleByte(pending[1], {113, 81}))
            => /\ pc' = "returning"
               /\ ret' = [choice |-> "", err |-> "cancelled"]
               /\ screen' = <<>>
               /\ selected' = selected]_vars
    /\ [](ret.err = "cancelled" => (ret.choice = "" /\ screen = <<>> /\ linuxDistro = "" /\ stdout = <<>>))

\* C4 witness: cancelled with Q away from the first choice.
C4_Witness == pc = "returned" /\ ret.err = "cancelled" /\ selected = 2 /\ buf[1] = 81 /\ n = 1 /\ screen = <<>>

\* C5 (as claimed): after the user cancels, the caller exits quietly: it logs no
\* error, does not take the failure exit, and does not launch a container.
C5_CancelIsQuiet ==
    ret.err = "cancelled" => (logged = <<>> /\ pc # "exit1" /\ pc # "initializeVM")

\* C6: an I/O failure ends the session and is never retried: a failed raw-mode
\* setup returns an error with nothing rendered or read; a failed read returns
\* an error that is neither Selected nor Cancelled, and no read, cursor change
\* or selection follows it.
C6_IOFailureFatal ==
    /\ [][(pc = "selectDistro" /\ ~raw')
            => /\ pc' = "returning"
               /\ ret' = [choice |-> "", err |-> "enable raw mode"]
               /\ UNCHANGED <<reads, renders, screen, selected>>]_vars
    /\ [](ret.err = "enable raw mode" => (reads = 0 /\ renders = 0 /\ screen = <<>> /\ ~raw))
    /\ [][(ReadCompletes /\ pending[1].err)
            => /\ pc' = "returning"
               /\ ret' = [choice |-> "", err |-> "read input"]
               /\ UNCHANGED <<selected, renders, screen>>]_vars
    /\ [][ret.err \in {"read input", "enable raw mode"}
            => /\ UNCHANGED <<ret, reads, renders, selected, pending, linuxDistro>>
               /\ pc' \in {"returning", "returned", "exit1"}]_vars

\* C6 witness: a read failed after navigation and the error reached the caller.
C6_Witness == pc = "exit1" /\ ret.err = "read input" /\ downs > 0 /\ reads = downs + 1

\* C7: a read that is none of the recognized tokens leaves the cursor and the
\* outcome unchanged and is followed by exactly one render before the next read,
\* whatever earlier reads left in the buffer.
C7_UnrecognizedIgnored ==
    /\ [][(ReadCompletes /\ Unrecognized(pending[1]))
            => /\ selected' = selected
               /\ ret' = ret
               /\ renders' = renders + 1
               /\ pc' = "loop"]_vars
    /\ [][pc = "loop" => renders' = renders]_vars

\* C7 witness: a 2-byte read ESC '[' arrived while the buffer still held the
\* 'B' of an earlier down arrow, and the cursor stayed where that arrow put it.
C7_Witness ==
    /\ pc = "loop" /\ n = 2 /\ buf = <<27, 91, 66>>
    /\ reads = 2 /\ downs = 1 /\ selected = 1 /\ renders = 3

\* C8: j, J and ESC [ B set the cursor to min(cursor+1, len(choices)-1); k, K
\* and ESC [ A set it to max(cursor-1, 0); no wraparound.
C8_ClampedStep ==
    /\ [][(ReadCompletes /\ IsDown(pending[1]))
            => (selected' = Min(selected + 1, LastIndex) /\ pc' = "loop")]_vars
    /\ [][(ReadCompletes /\ IsUp(pending[1]))
            => (selected' = Max(selected - 1, 0) /\ pc' = "loop")]_vars

\* C8 witness: an up arrow was read on the first choice and the cursor stayed.
C8_Witness == pc = "loop" /\ n = 3 /\ buf = <<27, 91, 65>> /\ ups = 1 /\ downs = 0 /\ selected = 0

\* C9: every render leaves exactly len(choices)+4 lines (header, blank, one per
\* choice with only the cursor's line highlighted, blank, footer) with the
\* terminal cursor below them; the cursor is back on the block's top row when
\* the read blocks, and every clear is issued from that row.
C9_StableRegion ==
    /\ clearedAt \subseteq {0}
    /\ InSession =>
        /\ Len(screen) = Len(distroList) + 4
        /\ \A i \in 1..Len(screen) : screen[i].hl <=> (i = selected + 3)
        /\ \A i \in 1..Len(distroList) : screen[i + 2].text = distroList[i]
        /\ screen[2].text = "" /\ screen[Len(screen) - 1].text = ""
        /\ row = (IF pc = "loop" THEN Len(distroList) + 4 ELSE 0)
    /\ (pc \in {"returning", "returned"} /\ ret.err \in {"nil", "cancelled"}) => (screen = <<>> /\ row = 0)

\* C9 witness: the menu was redrawn for the third time with the cursor moved.
C9_Witness == pc = "loop" /\ renders = 4 /\ selected = 2 /\ row = 9 /\ clearedAt = {0}

\* C10: the session returns only on a single-byte Enter, q or Q, or a failed
\* read; any other read loops, and nothing happens while no input is pending
\* (no timeout); with the loop scheduled fairly, a pending Enter, q, Q or read
\* failure leads to the session having returned with the terminal restored.
C10_EndsOnlyOnTerminator ==
    /\ [][(InSession /\ ~(pc' \in {"loop", "read"}))
            => (pc = "read" /\ pending # <<>> /\ Terminating(pending[1]) /\ pc' = "returning")]_vars
    /\ [][(ReadCompletes /\ ~Terminating(pending[1])) => pc' = "loop"]_vars
    /\ []((pc = "read" /\ pending = <<>>) => ~ENABLED (ReadStep \/ CursorUp \/ Return))
    /\ (InSession /\ pending # <<>> /\ Terminating(pending[1])) ~> (AfterReturn /\ ~raw /\ restores = 1)

\* C10 witness: the session ran through navigation and unrecognized reads and
\* ended only when Enter arrived.
C10_Witness ==
    /\ pc = "returned" /\ ~raw /\ n = 1 /\ buf[1] = 13
    /\ reads = MaxReads /\ downs + ups < reads - 1 /\ downs + ups > 0
====
